---- MODULE Spec2Model ----
(***************************************************************************)
(* Dynamics Theme (src/main.py): the tray menu's mode selection            *)
(* (select_theme, start_automatic, hide_icon), the run-loop of the         *)
(* automatic mode (automatic_theme) and the pure time-of-day comparison    *)
(* it makes on 'HH:MM:SS' strings.                                         *)
(*                                                                         *)
(* Threads: the tray (menu) thread runs the handlers one at a time; every  *)
(* start_automatic creates one Event object and one daemon thread.  Event  *)
(* objects are numbered 0, 1, 2, ...: 0 is the module-level Event of       *)
(* line 82, event n (n >= 1) is the one created by the n-th call of        *)
(* start_automatic, and thread n is the thread that call starts.           *)
(***************************************************************************)
EXTENDS Integers, Sequences, FiniteSets, TLC

\* ------------------------------------------------------------ bounds
\* how many times start_automatic may be called (the first call is the boot's)
MaxLoops == 2
\* how many times automatic_data may fail, over all run-loops together
MaxFails == 1
\* the same, in the specification of a single run-loop (SpecLoop)
MaxLoopFails == 7

\* ------------------------------------------------------------ program constants
InitialBackoff == 30
max_backoff == 600
TickSeconds == 60

Threads == 1..MaxLoops
Events == 0..MaxLoops

None == "None"
NoStr == << >>

\* ------------------------------------------------------------ 'HH:MM:SS' strings
\* A string is a sequence of one-character strings; Chars lists the characters
\* that occur, in code-point order ('0'..'9' then ':').
Chars == << "0", "1", "2", "3", "4", "5", "6", "7", "8", "9", ":" >>

CharCode(c) == CHOOSE i \in 1..Len(Chars) : Chars[i] = c

Min(a, b) == IF a < b THEN a ELSE b

Pad2NoZero(n) ==
    IF n < 10 THEN << Chars[n + 1] >>
    ELSE << Chars[(n \div 10) + 1], Chars[(n % 10) + 1] >>

\* %H, %M, %S of strftime: two decimal digits, zero-padded
Pad2(n) == << Chars[(n \div 10) + 1], Chars[(n % 10) + 1] >>

\* strftime('%H:%M:%S') of a time of day <<h, m, s>>
Strftime(t) == Pad2(t[1]) \o << ":" >> \o Pad2(t[2]) \o << ":" >> \o Pad2(t[3])

\* Python's < on str: lexicographic by code point, a proper prefix is smaller
RECURSIVE StrLess(_, _)
StrLess(a, b) ==
    IF b = << >> THEN FALSE
    ELSE IF a = << >> THEN TRUE
    ELSE IF Head(a) = Head(b) THEN StrLess(Tail(a), Tail(b))
    ELSE CharCode(Head(a)) < CharCode(Head(b))

\* line 298: "light" if sunrise < local_time < sunset else "dark"
Desired(sunrise, local, sunset) ==
    IF StrLess(sunrise, local) /\ StrLess(local, sunset) THEN "light" ELSE "dark"

\* the order of times of day, hour:minute:second
TimeLess(a, b) ==
    \/ a[1] < b[1]
    \/ a[1] = b[1] /\ a[2] < b[2]
    \/ a[1] = b[1] /\ a[2] = b[2] /\ a[3] < b[3]

\* ------------------------------------------------------------ inputs
\* the schedule automatic_data resolves and the clock readings of Spec
Sunrise0630 == << 6, 30, 0 >>
Sunset2015 == << 20, 15, 0 >>
Schedules == { << Sunrise0630, Sunset2015 >> }
ClockTimes == { << 6, 29, 59 >>, << 6, 30, 1 >> }

\* the times of day of SpecDesired
Hours == { 0, 6, 9, 10, 20, 23 }
Minutes == { 0, 9, 30 }
Seconds == { 0, 9, 59 }
AllTimes == { << h, m, s >> : h \in Hours, m \in Minutes, s \in Seconds }


\* ------------------------------------------------------------ state
VARIABLES
    stop_event,             \* the global stop_event: which Event object it names
    isSet,                  \* isSet[e]: Event e's flag
    nEvents,                \* Event objects created by start_automatic so far
    uiPc,                   \* where the tray thread is
    uiArg,                  \* select_theme's parameter theme
    osTheme,                \* the registry's AppsUseLightTheme, as "light"/"dark"
    pc,                     \* pc[t]: where thread t (automatic_theme) is
    backoff,                \* automatic_theme's local backoff
    sun_dt,                 \* sunrise/sunset local times before strftime (lines 218-219)
    sun_times,              \* automatic_theme's (sunrise, sunset) strings
    current_applied_theme,  \* automatic_theme's local current_applied_theme
    now_dt,                 \* datetime.now() of the last get_local_time
    local_time,             \* automatic_theme's local local_time
    desired_theme,          \* automatic_theme's local desired_theme
    sleep_secs,             \* the argument of the time.sleep thread t is in (0: none)
    elapsed,                \* elapsed[t]: that sleep's duration has passed
    apply_ok,               \* what thread t's last set_windows_theme returned, "None"
                            \* once a tick has made no call
    fail_budget,            \* how many more times automatic_data may fail
    loop_budget,            \* how many more times start_automatic may be called
    h_nwaits,               \* history: phase-1 waits thread t has begun
    h_prev_wait,            \* history: duration of thread t's previous phase-1 wait
    h_calls,                \* history: set_windows_theme calls of thread t's current tick
    h_cancelledInPhase1,    \* history: thread t's own Event was set before t left phase 1
    h_autoAtSelect,         \* history: a run-loop was live (the mode was Automatic)
                            \* when the last select_theme began
    h_uiCalls,              \* history: set_windows_theme calls of the last select_theme
    h_ndata,                \* history: automatic_data calls thread t has made
    h_nfail                 \* history: automatic_data calls of thread t that returned None

uiVars == << stop_event, isSet, nEvents, uiPc, uiArg >>
loopVars == << pc, backoff, sun_dt, sun_times, current_applied_theme, now_dt,
               local_time, desired_theme, sleep_secs, elapsed, apply_ok >>
histVars == << h_nwaits, h_prev_wait, h_calls, h_cancelledInPhase1, h_autoAtSelect,
              h_uiCalls, h_ndata, h_nfail >>
envVars == << fail_budget, loop_budget >>
vars == << uiVars, osTheme, loopVars, envVars, histVars >>

\* thread t has been started and has neither returned nor been killed at exit
Running(t) == pc[t] \notin { "none", "done", "killed" }

\* stop_event.is_set(): the module global is looked up at every evaluation
StopSeen == isSet[stop_event]

\* a run-loop is live: running, and its own Event has not been set
LiveLoop == \E t \in Threads : Running(t) /\ ~isSet[t]

InPhase1(t) == pc[t] \in { "data279", "sleep283", "data285" }
InWait(t) == pc[t] \in { "sleep283", "sleep305" }

\* ------------------------------------------------------------ initial state
\* the module has been loaded: line 82 made Event 0, create_tray_icon is about
\* to run, the registry holds either theme
InitWith(loops, failures) ==
    /\ stop_event = 0
    /\ isSet = [e \in Events |-> FALSE]
    /\ nEvents = 0
    /\ uiPc = "boot"
    /\ uiArg = None
    /\ osTheme \in { "light", "dark" }
    /\ pc = [t \in Threads |-> "none"]
    /\ backoff = [t \in Threads |-> 0]
    /\ sun_dt = [t \in Threads |-> NoStr]
    /\ sun_times = [t \in Threads |-> NoStr]
    /\ current_applied_theme = [t \in Threads |-> None]
    /\ now_dt = [t \in Threads |-> NoStr]
    /\ local_time = [t \in Threads |-> NoStr]
    /\ desired_theme = [t \in Threads |-> None]
    /\ sleep_secs = [t \in Threads |-> 0]
    /\ elapsed = [t \in Threads |-> FALSE]
    /\ apply_ok = [t \in Threads |-> None]
    /\ fail_budget = failures
    /\ loop_budget = loops
    /\ h_nwaits = [t \in Threads |-> 0]
    /\ h_prev_wait = [t \in Threads |-> 0]
    /\ h_calls = [t \in Threads |-> 0]
    /\ h_cancelledInPhase1 = [t \in Threads |-> FALSE]
    /\ h_autoAtSelect = FALSE
    /\ h_uiCalls = 0
    /\ h_ndata = [t \in Threads |-> 0]
    /\ h_nfail = [t \in Threads |-> 0]

Init == InitWith(MaxLoops, MaxFails)

\* the same with a budget of one start_automatic, the boot's
InitLoop == InitWith(1, MaxLoopFails)

\* ------------------------------------------------------------ the tray thread
\* create_tray_icon, lines 324-342: a failed get_current_theme returns at once
\* (the process ends); otherwise start_automatic is called
CreateTrayIcon(readOk) ==
    /\ uiPc = "boot"
    /\ uiPc' = IF readOk THEN "start270" ELSE "exited"
    /\ UNCHANGED << stop_event, isSet, nEvents, uiArg, osTheme, loopVars, envVars,
                    histVars >>

\* select_theme without its line 258: the current Event is left as it is
SelectThemeNoSet(theme) ==
    /\ uiPc = "idle"
    /\ theme = "auto" => loop_budget > 0
    /\ uiArg' = theme
    /\ uiPc' = IF theme = "auto" THEN "start270" ELSE "apply263"
    /\ h_autoAtSelect' = LiveLoop
    /\ h_uiCalls' = 0
    /\ UNCHANGED << stop_event, isSet, nEvents, osTheme, loopVars, envVars,
                    h_nwaits, h_prev_wait, h_calls, h_cancelledInPhase1,
                    h_ndata, h_nfail >>

\* select_theme, lines 258-259: set the current Event, then branch on theme
SelectTheme(theme) ==
    /\ uiPc = "idle"
    /\ theme = "auto" => loop_budget > 0
    /\ isSet' = [isSet EXCEPT ![stop_event] = TRUE]
    /\ uiArg' = theme
    /\ uiPc' = IF theme = "auto" THEN "start270" ELSE "apply263"
    /\ h_autoAtSelect' = LiveLoop
    /\ h_uiCalls' = 0
    /\ UNCHANGED << stop_event, nEvents, osTheme, loopVars, envVars,
                    h_nwaits, h_prev_wait, h_calls, h_cancelledInPhase1,
                    h_ndata, h_nfail >>

\* start_automatic, line 270: stop_event = threading.Event()
NewStopEvent ==
    /\ uiPc = "start270"
    /\ nEvents' = nEvents + 1
    /\ stop_event' = nEvents + 1
    /\ uiPc' = "start272"
    /\ loop_budget' = loop_budget - 1
    /\ UNCHANGED << isSet, uiArg, osTheme, loopVars, fail_budget, histVars >>

\* start_automatic, lines 271-272: the new thread starts automatic_theme, which
\* sets backoff (277) and calls automatic_data (279)
StartThread ==
    /\ uiPc = "start272"
    /\ pc' = [pc EXCEPT ![nEvents] = "data279"]
    /\ backoff' = [backoff EXCEPT ![nEvents] = InitialBackoff]
    /\ uiPc' = "idle"
    /\ h_ndata' = [h_ndata EXCEPT ![nEvents] = 1]
    /\ UNCHANGED << stop_event, isSet, nEvents, uiArg, osTheme, sun_dt, sun_times,
                    current_applied_theme, now_dt, local_time, desired_theme,
                    sleep_secs, elapsed, apply_ok, envVars, h_nwaits, h_prev_wait,
                    h_calls, h_cancelledInPhase1, h_autoAtSelect, h_uiCalls,
                    h_nfail >>

\* what a set_windows_theme(theme) leaves in the registry: theme once line 110
\* has written it, which a call that returns True has done and a call that
\* returns False (an exception at lines 99-116, caught at line 119) may have
ThemeAfter(wrote, theme, old) == IF wrote THEN theme ELSE old

\* select_theme, line 263: set_windows_theme(theme) of a manual selection
ManualApply(ok) ==
    /\ uiPc = "apply263"
    /\ \E wrote \in { ok, TRUE } : osTheme' = ThemeAfter(wrote, uiArg, osTheme)
    /\ uiPc' = "idle"
    /\ h_uiCalls' = h_uiCalls + 1
    /\ UNCHANGED << stop_event, isSet, nEvents, uiArg, loopVars, envVars,
                    h_nwaits, h_prev_wait, h_calls, h_cancelledInPhase1,
                    h_autoAtSelect, h_ndata, h_nfail >>

\* hide_icon without its line 349: the current Event is left as it is
HideIconNoSet ==
    /\ uiPc = "idle"
    /\ uiPc' = "exit350"
    /\ UNCHANGED << stop_event, isSet, nEvents, uiArg, osTheme, loopVars, envVars,
                    histVars >>

\* hide_icon, line 349: stop_event.set()
HideIcon ==
    /\ uiPc = "idle"
    /\ isSet' = [isSet EXCEPT ![stop_event] = TRUE]
    /\ uiPc' = "exit350"
    /\ UNCHANGED << stop_event, nEvents, uiArg, osTheme, loopVars, envVars,
                    histVars >>

\* hide_icon, lines 350-352: icon.stop() and sys.exit(0); the process ends and
\* its daemon threads end with it
ProcessExit ==
    /\ uiPc = "exit350"
    /\ uiPc' = "exited"
    /\ pc' = [t \in Threads |-> IF Running(t) THEN "killed" ELSE pc[t]]
    /\ UNCHANGED << stop_event, isSet, nEvents, uiArg, osTheme, backoff, sun_dt,
                    sun_times, current_applied_theme, now_dt, local_time,
                    desired_theme, sleep_secs, elapsed, apply_ok, envVars, histVars >>

\* ------------------------------------------------------------ the run-loop
BackoffUncapped(b) == b * 2

\* line 284: backoff = min(backoff * 2, max_backoff)
NextBackoff(b) == Min(b * 2, max_backoff)

NeedsApplyAlways(desired, applied) == TRUE

\* the comparison of line 301 made only once a theme has been applied
NeedsApplyKnown(desired, applied) == applied # None /\ desired # applied

\* line 301: if desired_theme != current_applied_theme
NeedsApply(desired, applied) == desired # applied

AppliedAfterAlways(ok, desired, applied) == desired

\* lines 302-303: current_applied_theme = desired_theme only if the call returned True
AppliedAfter(ok, desired, applied) == IF ok THEN desired ELSE applied

\* sun_time_local, line 220: both times through strftime('%H:%M:%S')
SunTimeLocal(dt) == << Strftime(dt[1]), Strftime(dt[2]) >>

\* automatic_data (line 279 or 285) returns res, NoStr standing for None, and the
\* while condition of line 281 is evaluated:
\*   a schedule:           lines 287, 291, 292, on to the loop of line 294
\*   None, stop seen:      lines 287-289, return
\*   None, stop not seen:  line 283, time.sleep(backoff) begins
Resolve(t, res) ==
    /\ pc[t] \in { "data279", "data285" }
    /\ IF res # NoStr
       THEN /\ sun_dt' = [sun_dt EXCEPT ![t] = res]
            /\ sun_times' = [sun_times EXCEPT ![t] = SunTimeLocal(res)]
            /\ current_applied_theme' = [current_applied_theme EXCEPT ![t] = None]
            /\ pc' = [pc EXCEPT ![t] = "check294"]
            /\ h_cancelledInPhase1' = [h_cancelledInPhase1 EXCEPT ![t] = isSet[t]]
            /\ UNCHANGED << fail_budget, sleep_secs, elapsed, h_nwaits, h_prev_wait,
                            h_nfail >>
       ELSE /\ fail_budget > 0
            /\ fail_budget' = fail_budget - 1
            /\ h_nfail' = [h_nfail EXCEPT ![t] = @ + 1]
            /\ UNCHANGED h_cancelledInPhase1
            /\ UNCHANGED << sun_dt, sun_times, current_applied_theme >>
            /\ IF StopSeen
               THEN /\ pc' = [pc EXCEPT ![t] = "done"]
                    /\ UNCHANGED << sleep_secs, elapsed, h_nwaits, h_prev_wait >>
               ELSE /\ pc' = [pc EXCEPT ![t] = "sleep283"]
                    /\ sleep_secs' = [sleep_secs EXCEPT ![t] = backoff[t]]
                    /\ elapsed' = [elapsed EXCEPT ![t] = FALSE]
                    /\ h_nwaits' = [h_nwaits EXCEPT ![t] = @ + 1]
                    /\ h_prev_wait' = [h_prev_wait EXCEPT ![t] = sleep_secs[t]]
    /\ UNCHANGED << uiVars, osTheme, backoff, now_dt, local_time, desired_theme,
                    apply_ok, loop_budget, h_calls, h_autoAtSelect, h_uiCalls,
                    h_ndata >>

\* the duration of the sleep thread t is in has passed
TimerExpire(t) ==
    /\ InWait(t)
    /\ ~elapsed[t]
    /\ elapsed' = [elapsed EXCEPT ![t] = TRUE]
    /\ UNCHANGED << uiVars, osTheme, pc, backoff, sun_dt, sun_times,
                    current_applied_theme, now_dt, local_time, desired_theme,
                    sleep_secs, apply_ok, envVars, histVars >>

\* line 283 returns and the loop goes on to line 291 without the call of
\* line 285
SleepReturn283NoRetry(t) ==
    /\ pc[t] = "sleep283"
    /\ elapsed[t]
    /\ backoff' = [backoff EXCEPT ![t] = NextBackoff(backoff[t])]
    /\ pc' = [pc EXCEPT ![t] = "check294"]
    /\ UNCHANGED << uiVars, osTheme, sun_dt, sun_times, current_applied_theme,
                    now_dt, local_time, desired_theme, sleep_secs, elapsed,
                    apply_ok, envVars, histVars >>

\* line 283 returns, which time.sleep does only when its duration has passed;
\* then line 284, and automatic_data is called again (line 285)
SleepReturn283(t) ==
    /\ pc[t] = "sleep283"
    /\ elapsed[t]
    /\ backoff' = [backoff EXCEPT ![t] = NextBackoff(backoff[t])]
    /\ pc' = [pc EXCEPT ![t] = "data285"]
    /\ h_ndata' = [h_ndata EXCEPT ![t] = @ + 1]
    /\ UNCHANGED << uiVars, osTheme, sun_dt, sun_times, current_applied_theme,
                    now_dt, local_time, desired_theme, sleep_secs, elapsed,
                    apply_ok, envVars, h_nwaits, h_prev_wait, h_calls,
                    h_cancelledInPhase1, h_autoAtSelect, h_uiCalls, h_nfail >>

\* line 294 leaving the loop when the last set_windows_theme returned False too
Check294ExitOnFailure(t) ==
    /\ pc[t] = "check294"
    /\ pc' = [pc EXCEPT ![t] = IF StopSeen \/ apply_ok[t] = "False"
                                THEN "done" ELSE "tick295"]
    /\ UNCHANGED << uiVars, osTheme, backoff, sun_dt, sun_times,
                    current_applied_theme, now_dt, local_time, desired_theme,
                    sleep_secs, elapsed, apply_ok, envVars, histVars >>

\* line 294: while not stop_event.is_set()
Check294(t) ==
    /\ pc[t] = "check294"
    /\ pc' = [pc EXCEPT ![t] = IF StopSeen THEN "done" ELSE "tick295"]
    /\ UNCHANGED << uiVars, osTheme, backoff, sun_dt, sun_times,
                    current_applied_theme, now_dt, local_time, desired_theme,
                    sleep_secs, elapsed, apply_ok, envVars, histVars >>

\* lines 295-302: read the clock (now), compute desired_theme, compare it with
\* current_applied_theme; then either set_windows_theme(desired_theme) is
\* called (line 302) or time.sleep(60) begins (line 305)
Tick(t, now) ==
    /\ pc[t] = "tick295"
    /\ now_dt' = [now_dt EXCEPT ![t] = now]
    /\ local_time' = [local_time EXCEPT ![t] = Strftime(now)]
    /\ desired_theme' = [desired_theme EXCEPT ![t] =
                            Desired(sun_times[t][1], Strftime(now), sun_times[t][2])]
    /\ IF NeedsApply(desired_theme'[t], current_applied_theme[t])
       THEN /\ pc' = [pc EXCEPT ![t] = "apply302"]
            /\ h_calls' = [h_calls EXCEPT ![t] = 1]
            /\ UNCHANGED << sleep_secs, elapsed, apply_ok >>
       ELSE /\ pc' = [pc EXCEPT ![t] = "sleep305"]
            /\ h_calls' = [h_calls EXCEPT ![t] = 0]
            /\ apply_ok' = [apply_ok EXCEPT ![t] = None]
            /\ sleep_secs' = [sleep_secs EXCEPT ![t] = TickSeconds]
            /\ elapsed' = [elapsed EXCEPT ![t] = FALSE]
    /\ UNCHANGED << uiVars, osTheme, backoff, sun_dt, sun_times,
                    current_applied_theme, envVars, h_nwaits, h_prev_wait,
                    h_cancelledInPhase1, h_autoAtSelect, h_uiCalls, h_ndata,
                    h_nfail >>

\* line 302: set_windows_theme(desired_theme) returns ok; line 303; then
\* time.sleep(60) begins (line 305)
ApplyReturn(t, ok) ==
    /\ pc[t] = "apply302"
    /\ \E wrote \in { ok, TRUE } :
          osTheme' = ThemeAfter(wrote, desired_theme[t], osTheme)
    /\ current_applied_theme' = [current_applied_theme EXCEPT ![t] =
                                    AppliedAfter(ok, desired_theme[t], @)]
    /\ apply_ok' = [apply_ok EXCEPT ![t] = IF ok THEN "True" ELSE "False"]
    /\ pc' = [pc EXCEPT ![t] = "sleep305"]
    /\ sleep_secs' = [sleep_secs EXCEPT ![t] = TickSeconds]
    /\ elapsed' = [elapsed EXCEPT ![t] = FALSE]
    /\ UNCHANGED << uiVars, backoff, sun_dt, sun_times, now_dt, local_time,
                    desired_theme, envVars, histVars >>

\* line 305 returns, which time.sleep does only when its duration has passed
SleepReturn305(t) ==
    /\ pc[t] = "sleep305"
    /\ elapsed[t]
    /\ pc' = [pc EXCEPT ![t] = "check294"]
    /\ UNCHANGED << uiVars, osTheme, backoff, sun_dt, sun_times,
                    current_applied_theme, now_dt, local_time, desired_theme,
                    sleep_secs, elapsed, apply_ok, envVars, histVars >>

\* one step of thread t, the passing of its sleep's duration included
LoopStep(t) ==
    \/ \E res \in Schedules \cup { NoStr } : Resolve(t, res)
    \/ TimerExpire(t)
    \/ SleepReturn283(t)
    \/ Check294(t)
    \/ \E now \in ClockTimes : Tick(t, now)
    \/ \E ok \in BOOLEAN : ApplyReturn(t, ok)
    \/ SleepReturn305(t)

\* the user picks a menu item
UserStep ==
    \/ \E theme \in { "auto", "light", "dark" } : SelectTheme(theme)
    \/ HideIcon

\* the tray thread goes on with the code it is in
TrayStep ==
    \/ \E readOk \in BOOLEAN : CreateTrayIcon(readOk)
    \/ NewStopEvent
    \/ StartThread
    \/ \E ok \in BOOLEAN : ManualApply(ok)
    \/ ProcessExit

Next == UserStep \/ TrayStep \/ \E t \in Threads : LoopStep(t)

Spec == Init /\ [][Next]_vars

\* threads are scheduled and sleeps end; the user need not do anything
FairSpec == Spec /\ WF_vars(TrayStep) /\ \A t \in Threads : WF_vars(LoopStep(t))

\* one run-loop: the boot's start_automatic is the only one
SpecLoop == InitLoop /\ [][Next]_vars

\* ------------------------------------------------------------ the comparison alone
\* a run-loop that has resolved some schedule and is about to read the clock
InitDesired ==
    /\ stop_event = 1
    /\ isSet = [e \in Events |-> FALSE]
    /\ nEvents = 1
    /\ uiPc = "idle"
    /\ uiArg = None
    /\ osTheme = "dark"
    /\ pc = [t \in Threads |-> IF t = 1 THEN "tick295" ELSE "none"]
    /\ backoff = [t \in Threads |-> IF t = 1 THEN InitialBackoff ELSE 0]
    /\ \E sunrise \in AllTimes, sunset \in AllTimes :
          /\ sun_dt = [t \in Threads |->
                          IF t = 1 THEN << sunrise, sunset >> ELSE NoStr]
          /\ sun_times = [t \in Threads |->
                          IF t = 1 THEN SunTimeLocal(<< sunrise, sunset >>) ELSE NoStr]
    /\ current_applied_theme = [t \in Threads |-> None]
    /\ now_dt = [t \in Threads |-> NoStr]
    /\ local_time = [t \in Threads |-> NoStr]
    /\ desired_theme = [t \in Threads |-> None]
    /\ sleep_secs = [t \in Threads |-> 0]
    /\ elapsed = [t \in Threads |-> FALSE]
    /\ apply_ok = [t \in Threads |-> None]
    /\ fail_budget = 0
    /\ loop_budget = 0
    /\ h_nwaits = [t \in Threads |-> 0]
    /\ h_prev_wait = [t \in Threads |-> 0]
    /\ h_calls = [t \in Threads |-> 0]
    /\ h_cancelledInPhase1 = [t \in Threads |-> FALSE]
    /\ h_autoAtSelect = FALSE
    /\ h_uiCalls = 0
    /\ h_ndata = [t \in Threads |-> IF t = 1 THEN 1 ELSE 0]
    /\ h_nfail = [t \in Threads |-> 0]

NextDesired == \E now \in AllTimes : Tick(1, now)

SpecDesired == InitDesired /\ [][NextDesired]_vars

\* ------------------------------------------------------------ one day's readings
\* what datetime.now() returns at four successive ticks of one run-loop
ScenarioClock == << << 6, 29, 59 >>, << 6, 30, 1 >>, << 20, 14, 59 >>, << 20, 15, 0 >> >>

\* how many of those readings thread t has made
ReadingsMade(t) ==
    IF now_dt[t] = NoStr THEN 0
    ELSE CHOOSE i \in 1..Len(ScenarioClock) : ScenarioClock[i] = now_dt[t]

\* the boot's run-loop alone: get_current_theme succeeds, nobody touches the
\* menu, automatic_data fails any number of times before it returns the
\* schedule, get_local_time returns the readings in order and every
\* set_windows_theme returns True
NextScenario ==
    \/ CreateTrayIcon(TRUE)
    \/ NewStopEvent
    \/ StartThread
    \/ \E res \in Schedules \cup { NoStr } : Resolve(1, res)
    \/ TimerExpire(1)
    \/ SleepReturn283(1)
    \/ Check294(1)
    \/ /\ ReadingsMade(1) < Len(ScenarioClock)
       /\ Tick(1, ScenarioClock[ReadingsMade(1) + 1])
    \/ ApplyReturn(1, TRUE)
    \/ SleepReturn305(1)

SpecScenario == InitLoop /\ [][NextScenario]_vars

\* ------------------------------------------------------------ Automatic, left alone
\* the boot and its run-loop with nobody touching the menu
NextAuto ==
    \/ \E readOk \in BOOLEAN : CreateTrayIcon(readOk)
    \/ NewStopEvent
    \/ StartThread
    \/ \E t \in Threads : LoopStep(t)

\* threads are scheduled and sleeps end; an automatic_data that is called again
\* and again at some time returns a schedule, a set_windows_theme that is
\* called again and again at some time returns True
FairAuto ==
    /\ InitLoop
    /\ [][NextAuto]_vars
    /\ WF_vars(NextAuto)
    /\ SF_vars(\E res \in Schedules : Resolve(1, res))
    /\ SF_vars(ApplyReturn(1, TRUE))

\* ------------------------------------------------------------ claims
\* steps of thread t that the claims speak of
\* set_windows_theme is invoked by thread t (line 302 is reached)
Invokes(t) == pc[t] = "tick295" /\ pc'[t] = "apply302"
\* a tick of thread t reads the clock and decides (lines 295-301)
Ticks(t) == pc[t] = "tick295" /\ pc'[t] \in { "apply302", "sleep305" }
\* thread t's set_windows_theme returns (lines 302-303)
Returns(t) == pc[t] = "apply302" /\ pc'[t] = "sleep305"

\* C1: there are never two run-loops that are both un-terminated and both see
\* their cancellation check (stop_event.is_set()) as not raised
AtMostOneLiveLoop ==
    Cardinality({ t \in Threads : Running(t) /\ ~StopSeen }) <= 1

\* C2: once select_theme('dark') has been issued in Automatic mode, and is
\* still the last selection, no run-loop invokes set_windows_theme('light')
NoLightAfterManualDark ==
    [][ (uiArg = "dark" /\ h_autoAtSelect)
          => \A t \in Threads : ~(Invokes(t) /\ desired_theme'[t] = "light") ]_vars

\* C3: a run-loop that is in a wait while its cancellation check is raised can
\* leave the wait, whether or not the wait's duration has passed
WaitsAreInterruptible ==
    \A t \in Threads :
        (InWait(t) /\ StopSeen) => ENABLED (SleepReturn283(t) \/ SleepReturn305(t))

\* C4, first half: a run-loop whose cancellation has been requested (its Event
\* has been set) eventually terminates
CancelledLoopTerminates ==
    \A t \in Threads : (isSet[t] /\ Running(t)) ~> ~Running(t)

\* C4, second half: it invokes set_windows_theme no more once its cancellation
\* has been requested
CancelledLoopInvokesNothing ==
    [][ \A t \in Threads : isSet[t] => ~Invokes(t) ]_vars

\* C4: every run-loop whose cancellation has been requested eventually
\* terminates, and starts no set_windows_theme call between the request and
\* its termination
CancelledLoopTerminatesQuietly ==
    CancelledLoopTerminates /\ CancelledLoopInvokesNothing

\* C5: select_theme('auto') issued while a run-loop is live changes nothing:
\* no Event is set or created, stop_event is not rebound, no thread is started
SelectAutoWhileLiveIsNoOp ==
    [][ ( /\ uiArg' = "auto"
          /\ h_autoAtSelect'
          /\ uiPc \in { "idle", "start270", "start272" }
          /\ uiPc' \in { "idle", "start270", "start272" }
          /\ uiPc' # uiPc )
          => /\ isSet' = isSet
             /\ stop_event' = stop_event
             /\ nEvents' = nEvents
             /\ \A t \in Threads : pc[t] = "none" => pc'[t] = "none" ]_vars

\* C10: a run-loop whose cancellation was requested while it was in phase 1
\* never invokes set_windows_theme
Phase1CancelNeverApplies ==
    [][ \A t \in Threads : h_cancelledInPhase1[t] => ~Invokes(t) ]_vars

\* C6: the desired theme of a tick is light exactly when the clock's time of day
\* is strictly between sunrise and sunset in hour:minute:second order, and the
\* two string comparisons of line 298 agree with that order
DesiredIffStrictlyBetween ==
    \A t \in Threads :
        desired_theme[t] # None =>
            /\ desired_theme[t] \in { "light", "dark" }
            /\ desired_theme[t] = "light"
                  <=> (TimeLess(sun_dt[t][1], now_dt[t]) /\ TimeLess(now_dt[t], sun_dt[t][2]))
            /\ StrLess(sun_times[t][1], local_time[t]) <=> TimeLess(sun_dt[t][1], now_dt[t])
            /\ StrLess(local_time[t], sun_times[t][2]) <=> TimeLess(now_dt[t], sun_dt[t][2])

\* C6 witness: a tick at the very instant of sunset, on a day with sunrise
\* before sunset, has computed dark
DarkAtSunset ==
    \E t \in Threads :
        /\ desired_theme[t] = "dark"
        /\ now_dt[t] = sun_dt[t][2]
        /\ TimeLess(sun_dt[t][1], sun_dt[t][2])

\* C7: a tick invokes set_windows_theme exactly when the desired theme differs
\* from current_applied_theme, once, and the call sets that theme; no other
\* step of the run-loop invokes it; a tick that follows a successful apply and
\* has the same desired theme makes no call (one call over the two ticks)
ApplyIffDiffers ==
    [][ \A t \in Threads :
          /\ Ticks(t) =>
                /\ Invokes(t) <=> desired_theme'[t] # current_applied_theme[t]
                /\ h_calls'[t] = IF Invokes(t) THEN 1 ELSE 0
                /\ (apply_ok[t] = "True" /\ desired_theme'[t] = desired_theme[t])
                      => h_calls[t] + h_calls'[t] = 1
          /\ ~Ticks(t) => h_calls'[t] = h_calls[t]
          /\ (Returns(t) /\ apply_ok'[t] = "True") => osTheme' = desired_theme[t] ]_vars

\* C7 witness: a tick has ended without a call because an earlier tick of the
\* same run-loop applied the theme that is still desired
SecondTickSkipped ==
    \E t \in Threads :
        /\ pc[t] = "sleep305"
        /\ h_calls[t] = 0
        /\ apply_ok[t] = None
        /\ current_applied_theme[t] = desired_theme[t]

\* C8: the n-th phase-1 wait lasts 30 s for n = 1 and min(2 * previous, 600)
\* for n > 1; the waits never decrease and stay within 30..600
BackoffSchedule ==
    \A t \in Threads :
        pc[t] = "sleep283" =>
            /\ h_nwaits[t] >= 1
            /\ h_nwaits[t] = 1 => sleep_secs[t] = 30
            /\ h_nwaits[t] > 1 =>
                  /\ sleep_secs[t] = Min(2 * h_prev_wait[t], 600)
                  /\ sleep_secs[t] >= h_prev_wait[t]
            /\ sleep_secs[t] >= 30
            /\ sleep_secs[t] <= 600

\* C8 witness: a seventh wait, of 600 s after a wait of 600 s
SeventhWaitAtCeiling ==
    \E t \in Threads :
        /\ pc[t] = "sleep283"
        /\ h_nwaits[t] = 7
        /\ sleep_secs[t] = 600
        /\ h_prev_wait[t] = 600

\* C9: a set_windows_theme that returns False leaves current_applied_theme as
\* it was and the loop running; current_applied_theme changes only when a call
\* returns True, and then to the theme applied; the tick after a failure, if
\* the desired theme is the same, calls set_windows_theme again
FailedApplyIsRetried ==
    [][ \A t \in Threads :
          /\ (Returns(t) /\ apply_ok'[t] = "False")
                => current_applied_theme'[t] = current_applied_theme[t]
          /\ pc[t] = "apply302" => pc'[t] \in { "apply302", "sleep305", "killed" }
          /\ current_applied_theme'[t] # current_applied_theme[t]
                => /\ Returns(t)
                   /\ apply_ok'[t] = "True"
                   /\ current_applied_theme'[t] = desired_theme[t]
                   /\ osTheme' = desired_theme[t]
          /\ (Ticks(t) /\ apply_ok[t] = "False" /\ desired_theme'[t] = desired_theme[t])
                => Invokes(t) ]_vars

\* C9 witness: a call is in flight in the tick after a call that returned False
RetryInFlight ==
    \E t \in Threads :
        /\ pc[t] = "apply302"
        /\ apply_ok[t] = "False"
        /\ current_applied_theme[t] # desired_theme[t]

\* C11: select_theme('light') and select_theme('dark') set the current Event
\* first (line 258), then call set_windows_theme once with the selected theme
\* (line 263) and return; neither step starts a thread, makes an Event or
\* calls automatic_data, whether or not a run-loop is live and whatever the
\* call returns
ManualSelectionAppliesOnce ==
    [][ /\ (uiPc = "idle" /\ uiPc' = "apply263")
              => /\ uiArg' \in { "light", "dark" }
                 /\ isSet'[stop_event]
                 /\ h_uiCalls' = 0
                 /\ osTheme' = osTheme
                 /\ stop_event' = stop_event
                 /\ nEvents' = nEvents
                 /\ pc' = pc
                 /\ h_ndata' = h_ndata
        /\ uiPc = "apply263"
              => /\ uiPc' \in { "apply263", "idle" }
                 /\ isSet[stop_event]
                 /\ uiArg' = uiArg
                 /\ stop_event' = stop_event
                 /\ nEvents' = nEvents
        /\ (uiPc = "apply263" /\ uiPc' = "idle")
              => /\ h_uiCalls' = 1
                 /\ osTheme' \in { uiArg, osTheme }
                 /\ pc' = pc
                 /\ h_ndata' = h_ndata
        /\ h_uiCalls' > h_uiCalls => uiPc = "apply263"
        /\ (uiPc' \in { "idle", "exit350", "exited" } /\ uiArg' \in { "light", "dark" })
              => h_uiCalls' = 1 ]_vars

\* C11 witness: a manual selection made while a run-loop was live has
\* returned, and its one set_windows_theme call returned False
ManualSelectionDone ==
    /\ uiPc = "idle"
    /\ uiArg \in { "light", "dark" }
    /\ h_autoAtSelect
    /\ h_uiCalls = 1
    /\ osTheme # uiArg

\* C12: once create_tray_icon is past its start-up (the read of the current
\* theme and the start_automatic it leads to), a run-loop has been started,
\* whatever get_current_theme returned
BootStartsLoop ==
    uiPc \notin { "boot", "start270", "start272" } => pc[1] # "none"

\* C13, as stated: in the scenario the desired themes are dark, light, light,
\* dark and set_windows_theme is called at the second and the fourth tick
\* only, two calls
ScenarioTwoCalls ==
    ReadingsMade(1) > 0 =>
        /\ desired_theme[1] = << "dark", "light", "light", "dark" >>[ReadingsMade(1)]
        /\ h_calls[1] = << 0, 1, 0, 1 >>[ReadingsMade(1)]

\* C13, amended: the desired themes are dark, light, light, dark and
\* set_windows_theme is called at the first tick (current_applied_theme is
\* None), the second and the fourth, three calls; the third tick calls nothing;
\* after each call the registry holds the desired theme
ScenarioThreeCalls ==
    ReadingsMade(1) > 0 =>
        /\ desired_theme[1] = << "dark", "light", "light", "dark" >>[ReadingsMade(1)]
        /\ h_calls[1] = << 1, 1, 0, 1 >>[ReadingsMade(1)]
        /\ pc[1] # "apply302" =>
              /\ osTheme = desired_theme[1]
              /\ current_applied_theme[1] = desired_theme[1]

\* C13 witness: the call of the fourth tick, at 20:15:00, has returned
ScenarioFourthTickApplied ==
    /\ ReadingsMade(1) = 4
    /\ pc[1] = "sleep305"
    /\ h_calls[1] = 1
    /\ apply_ok[1] = "True"
    /\ osTheme = "dark"

\* C14: hide_icon sets the current Event (line 349) before icon.stop() and
\* sys.exit (lines 350-352); from then on stop_event is not rebound, so every
\* thread still running, the current one and those of earlier
\* start_automatic calls, finds stop_event.is_set() true at its next check and
\* returns, or is ended with the process; none starts another wait or tick
\* (nEvents > 0 tells the exit of hide_icon from the return of lines 325-326,
\* before which no thread was started)
ExitCancelsEveryLoop ==
    [][ /\ (uiPc = "idle" /\ uiPc' = "exit350") => isSet'[stop_event]
        /\ (uiPc' = "exited" /\ nEvents' > 0) => uiPc \in { "exit350", "exited" }
        /\ (uiPc' \in { "exit350", "exited" } /\ nEvents' > 0)
              => /\ stop_event' = stop_event
                 /\ isSet'[stop_event']
                 /\ \A t \in Threads : Running(t)' => isSet'[stop_event']
        /\ uiPc' = "exited" => \A t \in Threads : ~Running(t)'
        /\ uiPc \in { "exit350", "exited" }
              => \A t \in Threads :
                    /\ pc[t] = "check294" => pc'[t] \in { "check294", "done", "killed" }
                    /\ pc[t] \in { "data279", "data285" }
                          => pc'[t] \in { pc[t], "check294", "done", "killed" } ]_vars

\* C14 witness: hide_icon has set the Event while two run-loops were running,
\* the current one and the one of an earlier start_automatic
ExitWithLeftoverLoop ==
    /\ uiPc = "exit350"
    /\ stop_event = 2
    /\ Running(1)
    /\ Running(2)

\* C15: a thread that is in the loop of line 294 has made one automatic_data
\* call more than returned None and has waited once per None; the call that
\* returns a schedule takes it straight to line 294; from then on sun_times
\* does not change and automatic_data is not called; before that no clock is
\* read and set_windows_theme is not called
ResolutionThenPolling ==
    [][ \A t \in Threads :
          /\ pc'[t] \in { "check294", "tick295", "apply302", "sleep305" }
                => /\ sun_times'[t] # NoStr
                   /\ h_ndata'[t] = h_nfail'[t] + 1
                   /\ h_nwaits'[t] = h_nfail'[t]
          /\ (sun_times[t] = NoStr /\ sun_times'[t] # NoStr)
                => /\ pc[t] \in { "data279", "data285" }
                   /\ pc'[t] = "check294"
          /\ sun_times[t] # NoStr
                => /\ sun_times'[t] = sun_times[t]
                   /\ sun_dt'[t] = sun_dt[t]
                   /\ h_ndata'[t] = h_ndata[t]
                   /\ h_nwaits'[t] = h_nwaits[t]
                   /\ ~InPhase1(t)'
          /\ (Ticks(t) \/ Returns(t)) => sun_times[t] # NoStr
          /\ sun_times'[t] = NoStr
                => /\ now_dt'[t] = NoStr
                   /\ desired_theme'[t] = None
                   /\ h_calls'[t] = 0 ]_vars

\* C15 witness: automatic_data returned None twice, the thread waited 30 s and
\* 60 s, the third call returned the schedule and a tick has been made
ThirdAttemptResolved ==
    \E t \in Threads :
        /\ pc[t] = "sleep305"
        /\ h_nfail[t] = 2
        /\ h_ndata[t] = 3
        /\ h_nwaits[t] = 2
        /\ h_prev_wait[t] = 30
        /\ backoff[t] = 120

\* C16: until a thread has made its first tick its current_applied_theme is
\* None (line 292), so that tick, whatever the registry holds and whatever
\* earlier threads or select_theme applied, calls set_windows_theme, with the
\* desired theme
FirstTickApplies ==
    [][ \A t \in Threads :
          /\ now_dt'[t] = NoStr => current_applied_theme'[t] = None
          /\ (Ticks(t) /\ now_dt[t] = NoStr)
                => /\ Invokes(t)
                   /\ h_calls'[t] = 1
                   /\ desired_theme'[t] \in { "light", "dark" }
          /\ (Returns(t) /\ apply_ok'[t] = "True") => osTheme' = desired_theme[t] ]_vars

\* C16 witness: thread 1 applied light and has returned, a manual selection
\* then made the registry dark, and thread 2, started by the selection of
\* auto after it, is making the call of its first tick, with light
FirstTickAfterManualDark ==
    /\ pc[1] = "done"
    /\ current_applied_theme[1] = "light"
    /\ osTheme = "dark"
    /\ uiArg = "auto"
    /\ pc[2] = "apply302"
    /\ current_applied_theme[2] = None
    /\ apply_ok[2] = None
    /\ desired_theme[2] = "light"

\* C17: automatic_theme returns only from a check that finds
\* stop_event.is_set() true (lines 281/287 and 294), and then the thread's own
\* Event has been set; an automatic_data that returns None with the check not
\* raised leads to the wait of line 283, a set_windows_theme that returns False
\* to the sleep of line 305
TerminatesOnlyWhenCancelled ==
    [][ \A t \in Threads :
          /\ pc'[t] = "done" => isSet'[t]
          /\ (pc[t] # "done" /\ pc'[t] = "done")
                => /\ StopSeen
                   /\ pc[t] \in { "data279", "data285", "check294" }
          /\ (h_nfail'[t] > h_nfail[t] /\ ~StopSeen) => pc'[t] = "sleep283"
          /\ pc[t] = "sleep283" => pc'[t] \in { "sleep283", "data285", "killed" }
          /\ pc[t] = "apply302" => pc'[t] \in { "apply302", "sleep305", "killed" }
          /\ pc[t] = "sleep305" => pc'[t] \in { "sleep305", "check294", "killed" } ]_vars

\* C17 witness: a thread that went through a failed automatic_data and a
\* failed set_windows_theme has returned, its Event set
ReturnedAfterFailures ==
    \E t \in Threads :
        /\ pc[t] = "done"
        /\ isSet[t]
        /\ h_nfail[t] >= 1
        /\ apply_ok[t] = "False"

\* C18: a thread in phase 1 whose own Event has been set, and for which
\* stop_event.is_set() is true, begins no automatic_data call and no wait
NoRetryOnceCancelled ==
    [][ \A t \in Threads :
          (InPhase1(t) /\ isSet[t] /\ StopSeen)
              => /\ h_ndata'[t] = h_ndata[t]
                 /\ h_nwaits'[t] = h_nwaits[t] ]_vars

\* C19: once a thread's own Event has been set, every check the thread makes
\* (lines 281 and 294) finds the signal raised: the thread returns instead of
\* beginning a wait or a tick
CancellationIsSticky ==
    [][ \A t \in Threads :
          isSet[t] =>
              /\ pc[t] = "check294" => pc'[t] # "tick295"
              /\ pc[t] \in { "data279", "data285" } => pc'[t] # "sleep283" ]_vars

\* C20: with the mode left at Automatic, automatic_data and set_windows_theme
\* succeeding at some time when called again and again, if from some tick on
\* the desired theme is always d, then from some time on the registry holds d
\* and set_windows_theme is not being called
SelfHealing ==
    \A d \in { "light", "dark" } :
        <>[](desired_theme[1] = d) => <>[](osTheme = d /\ pc[1] # "apply302")

====
